---- MODULE Spec2Model ----
(***************************************************************************)
(* Observer/src/main.cpp: class Subject keeps an intrusive singly linked   *)
(* list of Observer objects (head_, Observer::next_) and an int state_.    *)
(* The operations addObserver, removeObserver, setState and                *)
(* notifyObservers are modelled statement by statement.  Observer is an    *)
(* abstract class: onNotify is a callback that may call back into any      *)
(* Subject, so the calls form a stack of frames and only the top frame     *)
(* runs (the program is single threaded).                                  *)
(*                                                                         *)
(* The three other programs of the repository each have a variable and a   *)
(* specification of their own: FlyweightFactory::GetFlyweight              *)
(* (Flyweight/src/main.cpp, SpecFlyweight), InputHandler::bindCommand and  *)
(* handleInput (Command/src/main.cpp, SpecInput), and FileSystem Read and  *)
(* Write (Singleton/src/FileSystem.cpp, SpecFileSystem).                   *)
(***************************************************************************)
EXTENDS Integers, Sequences, FiniteSets, TLC

\* ---------------------------------------------------------------- bounds
NumObs == 3       \* Observer objects that exist
NumSubj == 2      \* Subject objects that exist under SpecSubjects
MaxVal == 1       \* setState arguments are 0..MaxVal
MaxCbCalls == 1   \* calls made from inside callbacks per outermost call
MaxCbReads == 1   \* getState calls made from inside callbacks likewise
NumPaths == 3     \* file paths GetFlyweight is called with
NumKeys == 2      \* key codes
NumCmds == 2      \* Command objects that get bound
NumFiles == 2     \* paths Read and Write are called with
NumChars == 2     \* characters a text is made of
MaxLen == 2       \* length of a text

NULL == 0
Observers == 1..NumObs
Values == 0..MaxVal
\* events a frame's log keeps; later events are dropped (the log is full)
LogCap == (NumObs + 2) * (MaxCbCalls + 1)

VARIABLES
    head_,     \* Subject::head_   : Subjects -> Observers \cup {NULL}
    next_,     \* Observer::next_  : Observers -> Observers \cup {NULL}
    state_,    \* Subject::state_  : Subjects -> Int
    stack,     \* call stack: the frames of the calls in progress, top last
    reg,       \* history: per Subject, the observers added and not removed
               \*   since, in the order of their addObserver calls
    dup,       \* history: some addObserver got an already registered observer
    cbAdded,   \* history: the registered observers that a callback added
    cbCalls,   \* calls made from callbacks during the outermost call
    lastSet,   \* history: per Subject, the argument of the last setState call
    hist,      \* history, kept under SpecPairs: how often each observer is
               \*   registered, and the Subject before an addObserver call
    factory,   \* Flyweight/src/main.cpp: the FlyweightFactory and its calls
    input,     \* Command/src/main.cpp: the InputHandler and its calls
    fs         \* Singleton/src: the files and the calls of the FileSystem

\* the other programs of the repository, which class Subject never touches
others == <<factory, input, fs>>

vars == <<head_, next_, state_, stack, reg, dup, cbAdded, cbCalls, lastSet,
          hist, factory, input, fs>>

\* the Subject objects that exist: main() constructs one (line 246)
Subjects == DOMAIN head_

\* ---------------------------------------------------------------- helpers
Range(q) == {q[i] : i \in DOMAIN q}

RECURSIVE Without(_, _)
Without(q, x) ==
    IF q = <<>> THEN <<>>
    ELSE IF Head(q) = x THEN Without(Tail(q), x)
    ELSE <<Head(q)>> \o Without(Tail(q), x)

Reverse(q) == [i \in 1..Len(q) |-> q[Len(q) + 1 - i]]

\* The observers met by following nx from o, at most n of them.
RECURSIVE Walk(_, _, _)
Walk(nx, o, n) ==
    IF o = NULL \/ n = 0 THEN <<>>
    ELSE <<o>> \o Walk(nx, nx[o], n - 1)

\* The chain of Subject s; NumObs + 1 long exactly when the walk meets no null.
ChainOf(hd, nx, s) == Walk(nx, hd[s], NumObs + 1)
Chain(s) == ChainOf(head_, next_, s)
Acyclic(q) == Len(q) <= NumObs

Registered(o) == \E s \in Subjects : o \in Range(reg[s])

Top == stack[Len(stack)]
Idle == stack = <<>>
IsPass(f) == f.op \in {"setState", "notifyObservers"}

\* ---------------------------------------------------------------- frames
Snapshot ==
    [head |-> head_, next |-> next_, state |-> state_, reg |-> reg,
     cbAdded |-> cbAdded]

\* odd: the parity of the scan iterations made, so that an iteration that
\* leaves current where it was is still a step; res: the value returned
Frame(op, s, arg, cur, pc) ==
    [op |-> op, subj |-> s, arg |-> arg, cur |-> cur, pc |-> pc,
     odd |-> FALSE, res |-> 0, pre |-> Snapshot, log |-> <<>>]

\* Every call in progress sees the event e happen.
Noted(stk, e) ==
    [i \in DOMAIN stk |->
        [stk[i] EXCEPT !.log = IF Len(@) < LogCap THEN Append(@, e) ELSE @]]

CallEvent(op, s, arg, flag) == <<op, Len(stack), s, arg, flag>>
NotifyEvent(s, o, v) == <<"notify", Len(stack), s, o, v>>

\* A call comes from the driver (no call in progress) or from the onNotify
\* callback that the top notification pass is running.
InCallback == ~Idle /\ IsPass(Top) /\ Top.pc = "cb"
CanCall == Idle \/ (InCallback /\ cbCalls < MaxCbCalls)
Counted == IF Idle THEN 0 ELSE cbCalls + 1

\* ---------------------------------------------------------------- the other programs, constructed
\* Flyweight/src/main.cpp: what flyweights holds for a file path is no entry,
\* an entry with an empty shared_ptr, or an entry with the object 1, 2, ...
FilePaths == 1..NumPaths
Absent == 0 - 1
NullPtr == 0
MaxFlyweights == NumPaths + 1

\* flyweights: the map of line 150; objects: the TextureFlyweight objects
\* constructed so far; made: history, those constructed per path; first:
\* history, what the first call that returned for the path returned; call:
\* the last GetFlyweight call
FactoryNew ==
    [flyweights |-> [p \in FilePaths |-> Absent],
     objects |-> 0,
     made |-> [p \in FilePaths |-> 0],
     first |-> [p \in FilePaths |-> Absent],
     call |-> [path |-> 0, hit |-> FALSE, thrown |-> FALSE, res |-> Absent]]

\* Command/src/main.cpp: what commandMap holds for a key is no entry, an
\* entry with an empty unique_ptr, or an entry with the command 1, 2, ...
Keys == 1..NumKeys
Commands == 1..NumCmds
Unbound == 0 - 1
NullCmd == 0
EventTypes == {"SDL_KEYDOWN", "SDL_KEYUP"}

\* commandMap: the map of line 150; bound: history, the command of the last
\* bindCommand per key; call: the last call, the commands it executed (ran)
\* and the map it found (pre)
InputHandlerNew ==
    [commandMap |-> [k \in Keys |-> Unbound],
     bound |-> [k \in Keys |-> Unbound],
     call |-> [op |-> "none", type |-> "none", key |-> 0, ran |-> <<>>,
               pre |-> [k \in Keys |-> Unbound]]]

\* Singleton/src: a file holds a text (a sequence of characters) or does
\* not exist
Paths == 1..NumFiles
Chars == 1..NumChars
RECURSIVE TextsOf(_)
TextsOf(n) ==
    IF n = 0 THEN {<<>>}
    ELSE TextsOf(n - 1) \cup {Append(t, c) : t \in TextsOf(n - 1), c \in Chars}
Texts == TextsOf(MaxLen)
NoFile == <<0>>
Platforms == {"windows", "linux", "other"}

\* platform: what the build was compiled for; disk: the files; written:
\* history, the text of the last Write per path that returned; before:
\* history, what the file held when that Write was called; call: the last
\* Read or Write call
FileSystemOn(platform, disk) ==
    [platform |-> platform, disk |-> disk,
     written |-> [p \in Paths |-> NoFile],
     before |-> [p \in Paths |-> NoFile],
     call |-> [op |-> "none", path |-> 0, thrown |-> FALSE, res |-> NoFile]]

OthersNew ==
    /\ factory = FactoryNew
    /\ input = InputHandlerNew
    /\ fs = FileSystemOn("linux", [p \in Paths |-> NoFile])

\* Subject() : head_(nullptr), state_(0) and Observer() : next_(nullptr)
Constructed(subjects) ==
    /\ head_ = [s \in subjects |-> NULL]
    /\ next_ = [o \in Observers |-> NULL]
    /\ state_ = [s \in subjects |-> 0]
    /\ stack = <<>>
    /\ reg = [s \in subjects |-> <<>>]
    /\ dup = FALSE
    /\ cbAdded = {}
    /\ cbCalls = 0
    /\ lastSet = [s \in subjects |-> 0]

\* the history of the calls, before the first call.  times[o] is 0 while
\* every addObserver(o) so far was undone by a later removeObserver(o), 1
\* while o is registered once, 2 from the moment o was added while registered.
\* phase is "added" after addObserver(obs) on subj found times[obs] = 0 and
\* before the next call, "removing" during the removeObserver(obs) on subj
\* that is this next call; before is the Subject as the addObserver found it.
NoPair ==
    [phase |-> "none", subj |-> 0, obs |-> NULL,
     before |-> [head |-> <<>>, next |-> <<>>, state |-> <<>>]]
History(on) == [on |-> on, times |-> [o \in Observers |-> 0], pair |-> NoPair]

Init == Constructed({1}) /\ OthersNew /\ hist = History(FALSE)
InitSubjects == Constructed(1..NumSubj) /\ OthersNew /\ hist = History(FALSE)

\* The registration history is kept while every addObserver got an observer
\* that was registered nowhere; after that it is dropped.
KeepReg(d, r) == IF d THEN [s \in Subjects |-> <<>>] ELSE r

\* ---------------------------------------------------------------- the history of the calls
\* the driver calls addObserver(o) on s
HistAdd(s, o) ==
    IF ~hist.on \/ ~Idle THEN hist
    ELSE [hist EXCEPT
            !.times[o] = IF @ = 0 THEN 1 ELSE 2,
            !.pair = IF hist.times[o] = 0
                     THEN [phase |-> "added", subj |-> s, obs |-> o,
                           before |-> [head |-> head_, next |-> next_,
                                       state |-> state_]]
                     ELSE NoPair]

\* the driver calls removeObserver(o) on s
HistRemove(s, o) ==
    IF ~hist.on \/ ~Idle THEN hist
    ELSE [hist EXCEPT
            !.times[o] = IF @ = 1 THEN 0 ELSE @,
            !.pair = IF @.phase = "added" /\ @.subj = s /\ @.obs = o
                     THEN [@ EXCEPT !.phase = "removing"]
                     ELSE NoPair]

\* the driver makes another call, or the removeObserver of a pair returns
HistOther == IF ~hist.on \/ ~Idle THEN hist ELSE [hist EXCEPT !.pair = NoPair]
HistReturn ==
    IF hist.on /\ Len(stack) = 1 /\ hist.pair.phase = "removing"
    THEN [hist EXCEPT !.pair = NoPair] ELSE hist

\* ---------------------------------------------------------------- addObserver
\* (variant: the new observer is linked in behind the head)
AddLinksBehindHead(s, o) ==
    IF head_[s] = NULL
    THEN /\ next_' = [next_ EXCEPT ![o] = NULL]
         /\ head_' = [head_ EXCEPT ![s] = o]
    ELSE /\ next_' = [next_ EXCEPT ![o] = next_[head_[s]], ![head_[s]] = o]
         /\ head_' = head_

\* (variant: a change of the registry resets the state)
RegistryOpResetsState(s) == state_' = [state_ EXCEPT ![s] = 0]

\* lines 90-94 and 100-131: no statement writes state_
RegistryOpState(s) == state_' = state_

\* lines 92-93
AddLinks(s, o) ==
    /\ next_' = [next_ EXCEPT ![o] = head_[s]]
    /\ head_' = [head_ EXCEPT ![s] = o]

addObserver(s, o) ==
    /\ CanCall
    /\ AddLinks(s, o)
    /\ stack' = Append(Noted(stack, CallEvent("addObserver", s, o,
                                   IF Registered(o) THEN 1 ELSE 0)),
                       Frame("addObserver", s, o, NULL, "ret"))
    /\ dup' = (dup \/ Registered(o))
    /\ reg' = KeepReg(dup', [reg EXCEPT ![s] = Append(@, o)])
    /\ cbAdded' = IF dup' THEN {}
                  ELSE IF Idle THEN cbAdded ELSE cbAdded \cup {o}
    /\ cbCalls' = Counted
    /\ RegistryOpState(s)
    /\ UNCHANGED <<lastSet, others>>
    /\ hist' = HistAdd(s, o)

\* ---------------------------------------------------------------- removeObserver
\* (variant: head_ keeps pointing at the removed observer)
RemoveHeadKeepsHead(s, o) ==
    /\ head_' = head_
    /\ next_' = [next_ EXCEPT ![o] = NULL]

\* lines 102-111: the observer is the head
RemoveHead(s, o) ==
    /\ head_' = [head_ EXCEPT ![s] = next_[o]]
    /\ next_' = [next_ EXCEPT ![o] = NULL]

\* (variant: the predecessor loses its link instead of taking over next_)
SpliceDropsTail(cur, o) ==
    next_' = [next_ EXCEPT ![cur] = NULL, ![o] = NULL]

\* lines 119-120: the observer follows cur
Splice(cur, o) ==
    next_' = [next_ EXCEPT ![cur] = next_[o], ![o] = NULL]

\* line 102
IsHead(s, o) == head_[s] = o

\* (variant: the scan takes the first node it looks at)
FollowsAnything(cur, o) == next_[cur] = o \/ next_[cur] # NULL

\* line 117
Follows(cur, o) == next_[cur] = o

removeObserver(s, o) ==
    /\ CanCall
    /\ IF IsHead(s, o)
       THEN /\ RemoveHead(s, o)
            /\ stack' = Append(Noted(stack, CallEvent("removeObserver", s, o, 0)),
                               Frame("removeObserver", s, o, NULL, "ret"))
       ELSE /\ UNCHANGED <<head_, next_>>
            /\ stack' = Append(Noted(stack, CallEvent("removeObserver", s, o, 0)),
                               Frame("removeObserver", s, o, head_[s], "scan"))
    /\ reg' = [reg EXCEPT ![s] = Without(@, o)]
    /\ cbAdded' = IF o \in Range(reg[s]) THEN cbAdded \ {o} ELSE cbAdded
    /\ cbCalls' = Counted
    /\ RegistryOpState(s)
    /\ UNCHANGED dup
    /\ UNCHANGED <<lastSet, others>>
    /\ hist' = HistRemove(s, o)

\* one iteration of the while loop of lines 115-130
RemoveScan ==
    /\ ~Idle
    /\ Top.op = "removeObserver"
    /\ Top.pc = "scan"
    /\ IF Top.cur = NULL
       THEN /\ stack' = [stack EXCEPT ![Len(stack)].pc = "ret"]
            /\ UNCHANGED next_
       ELSE IF Follows(Top.cur, Top.arg)
       THEN /\ Splice(Top.cur, Top.arg)
            /\ stack' = [stack EXCEPT ![Len(stack)].pc = "ret"]
       ELSE /\ stack' = [stack EXCEPT ![Len(stack)].cur = next_[Top.cur],
                                        ![Len(stack)].odd = ~@]
            /\ UNCHANGED next_
    /\ UNCHANGED <<head_, state_, reg, dup, cbAdded, cbCalls>>
    /\ UNCHANGED <<lastSet, others>>
    /\ UNCHANGED hist

\* ---------------------------------------------------------------- setState, notifyObservers
\* (variant: a Subject nobody observes does not store the state)
StoreStateIfObserved(s, v) ==
    state_' = IF head_[s] = NULL THEN state_ ELSE [state_ EXCEPT ![s] = v]

\* line 139
StoreState(s, v) == state_' = [state_ EXCEPT ![s] = v]

\* (variant: a pass started from inside a callback is skipped)
PassStartUnlessNested(s) == IF Idle THEN head_[s] ELSE NULL

\* line 154
PassStart(s) == head_[s]

setState(s, v) ==
    /\ CanCall
    /\ StoreState(s, v)
    /\ stack' = Append(Noted(stack, CallEvent("setState", s, v, 0)),
                       Frame("setState", s, v, PassStart(s), "loop"))
    /\ cbCalls' = Counted
    /\ lastSet' = [lastSet EXCEPT ![s] = v]
    /\ UNCHANGED <<head_, next_, reg, dup, cbAdded, others>>
    /\ hist' = HistOther

\* (variant: a getState made during a call returns the state at its start)
GetStateResultAtStart(s) == IF Idle THEN state_[s] ELSE stack[1].pre.state[s]

\* line 147
GetStateResult(s) == state_[s]

\* the getState calls the callbacks of the outermost call have made
ReadsMade ==
    Cardinality({j \in DOMAIN stack[1].log : stack[1].log[j][1] = "getState"})
CanRead == Idle \/ (InCallback /\ ReadsMade < MaxCbReads)

getState(s) ==
    /\ CanRead
    /\ stack' = Append(Noted(stack, CallEvent("getState", s, GetStateResult(s), 0)),
                       [Frame("getState", s, 0, NULL, "ret")
                           EXCEPT !.res = GetStateResult(s)])
    /\ UNCHANGED <<head_, next_, state_, reg, dup, cbAdded, cbCalls, lastSet,
                   others>>
    /\ hist' = HistOther

notifyObservers(s) ==
    /\ CanCall
    /\ stack' = Append(Noted(stack, CallEvent("notifyObservers", s, 0, 0)),
                       Frame("notifyObservers", s, 0, PassStart(s), "loop"))
    /\ cbCalls' = Counted
    /\ UNCHANGED <<head_, next_, state_, reg, dup, cbAdded>>
    /\ UNCHANGED <<lastSet, others>>
    /\ hist' = HistOther

\* (variant: the pass hands out the state it read when it started)
NotifyArgAtStart(s) == IF Top.op = "setState" THEN Top.arg ELSE Top.pre.state[s]

\* the argument of onNotify, line 158
NotifyArg(s) == state_[s]

\* line 159
Advance(cur) == next_[cur]

\* while (current) { current->onNotify(state_); : the callback starts
NotifyCall ==
    /\ ~Idle
    /\ IsPass(Top)
    /\ Top.pc = "loop"
    /\ Top.cur # NULL
    /\ stack' = [Noted(stack, NotifyEvent(Top.subj, Top.cur, NotifyArg(Top.subj)))
                    EXCEPT ![Len(stack)].pc = "cb"]
    /\ UNCHANGED <<head_, next_, state_, reg, dup, cbAdded, cbCalls>>
    /\ UNCHANGED <<lastSet, others>>
    /\ UNCHANGED hist

\* the callback returns; current = current->next_; }
NotifyNext ==
    /\ ~Idle
    /\ IsPass(Top)
    /\ Top.pc = "cb"
    /\ stack' = [stack EXCEPT ![Len(stack)].cur = Advance(Top.cur),
                              ![Len(stack)].pc = "loop"]
    /\ UNCHANGED <<head_, next_, state_, reg, dup, cbAdded, cbCalls>>
    /\ UNCHANGED <<lastSet, others>>
    /\ UNCHANGED hist

\* current is null: the loop ends
NotifyEnd ==
    /\ ~Idle
    /\ IsPass(Top)
    /\ Top.pc = "loop"
    /\ Top.cur = NULL
    /\ stack' = [stack EXCEPT ![Len(stack)].pc = "ret"]
    /\ UNCHANGED <<head_, next_, state_, reg, dup, cbAdded, cbCalls>>
    /\ UNCHANGED <<lastSet, others>>
    /\ UNCHANGED hist

\* ---------------------------------------------------------------- return
Return ==
    /\ ~Idle
    /\ Top.pc = "ret"
    /\ stack' = SubSeq(stack, 1, Len(stack) - 1)
    /\ cbCalls' = IF Len(stack) = 1 THEN 0 ELSE cbCalls
    /\ UNCHANGED <<head_, next_, state_, reg, dup, cbAdded>>
    /\ UNCHANGED <<lastSet, others>>
    /\ hist' = HistReturn

\* ---------------------------------------------------------------- specification
Running == RemoveScan \/ NotifyCall \/ NotifyNext \/ NotifyEnd \/ Return

Next ==
    \/ \E s \in Subjects, o \in Observers : addObserver(s, o)
    \/ \E s \in Subjects, o \in Observers : removeObserver(s, o)
    \/ \E s \in Subjects, v \in Values : setState(s, v)
    \/ \E s \in Subjects : notifyObservers(s)
    \/ Idle /\ \E s \in Subjects : getState(s)
    \/ RemoveScan
    \/ NotifyCall
    \/ NotifyNext
    \/ NotifyEnd
    \/ Return

\* one Subject, callbacks that call back into it
Spec == Init /\ [][Next]_vars

\* one Subject, callbacks that read and set the state: the driver registers
\* observers that are not registered, as main does (lines 251-253), and
\* unregisters any
ReadsNext ==
    \/ Idle /\ \E s \in Subjects, o \in Observers :
                  ~Registered(o) /\ addObserver(s, o)
    \/ Idle /\ \E s \in Subjects, o \in Observers : removeObserver(s, o)
    \/ \E s \in Subjects, v \in Values : setState(s, v)
    \/ \E s \in Subjects : getState(s)
    \/ RemoveScan
    \/ NotifyCall
    \/ NotifyNext
    \/ NotifyEnd
    \/ Return

SpecReads == Init /\ [][ReadsNext]_vars

\* NumSubj Subjects, every call made by the driver (callbacks only return)
DriverNext ==
    \/ Idle /\ \E s \in Subjects, o \in Observers : addObserver(s, o)
    \/ Idle /\ \E s \in Subjects, o \in Observers : removeObserver(s, o)
    \/ Idle /\ \E s \in Subjects, v \in Values : setState(s, v)
    \/ Idle /\ \E s \in Subjects : notifyObservers(s)
    \/ Idle /\ \E s \in Subjects : getState(s)
    \/ RemoveScan
    \/ NotifyCall
    \/ NotifyNext
    \/ NotifyEnd
    \/ Return

SpecSubjects == InitSubjects /\ [][DriverNext]_vars

\* one Subject, every call made by the driver, the history of the calls kept
InitPairs == Constructed({1}) /\ OthersNew /\ hist = History(TRUE)
SpecPairs == InitPairs /\ [][DriverNext]_vars

\* The program is one thread: a call in progress keeps executing, and the
\* callbacks return.
FairSpec == Spec /\ WF_vars(Running)

\* ---------------------------------------------------------------- FlyweightFactory
subjectVars ==
    <<head_, next_, state_, stack, reg, dup, cbAdded, cbCalls, lastSet, hist>>

\* (variant: every path is taken for a new one)
FoundNever(m, p) == FALSE

\* Flyweight line 165: flyweights.find(filePath) is not flyweights.end()
Found(m, p) == m[p] # Absent

\* What the first returning call for path p returned, r being what the
\* present call returns.
FirstOf(p, r) ==
    [factory.first EXCEPT ![p] = IF @ = Absent THEN r ELSE @]

\* Flyweight line 168, the TextureFlyweight constructor returns: the new
\* object is stored under the path, and line 175 returns the stored pointer
Created(p) ==
    LET o == factory.objects + 1
        m == [factory.flyweights EXCEPT ![p] = o]
    IN  [flyweights |-> m,
         objects |-> o,
         made |-> [factory.made EXCEPT ![p] = @ + 1],
         first |-> FirstOf(p, m[p]),
         call |-> [path |-> p, hit |-> FALSE, thrown |-> FALSE, res |-> m[p]]]

\* Flyweight line 168, the constructor throws (lines 109-111, IMG_Load
\* failed): GetFlyweight throws.  Whether flyweights[filePath] was evaluated
\* before make_shared, and left an entry with an empty pointer, depends on
\* the language standard the build uses (entryFirst).
Failed(p, entryFirst) ==
    [factory EXCEPT
        !.flyweights = IF entryFirst THEN [@ EXCEPT ![p] = NullPtr] ELSE @,
        !.call = [path |-> p, hit |-> FALSE, thrown |-> TRUE, res |-> Absent]]

\* Flyweight lines 171-175: the stored pointer is returned
Reused(p) ==
    [factory EXCEPT
        !.first = FirstOf(p, factory.flyweights[p]),
        !.call = [path |-> p, hit |-> TRUE, thrown |-> FALSE,
                  res |-> factory.flyweights[p]]]

\* Flyweight lines 163-176
GetFlyweight(p) ==
    /\ \/ /\ ~Found(factory.flyweights, p)
          /\ factory.objects < MaxFlyweights
          /\ \E loaded \in BOOLEAN, entryFirst \in BOOLEAN :
                factory' = IF loaded THEN Created(p) ELSE Failed(p, entryFirst)
       \/ /\ Found(factory.flyweights, p)
          /\ factory' = Reused(p)
    /\ UNCHANGED <<subjectVars, input, fs>>

FlyweightNext == \E p \in FilePaths : GetFlyweight(p)

SpecFlyweight == Init /\ [][FlyweightNext]_vars

\* ---------------------------------------------------------------- InputHandler
\* Command line 158: commandMap.find(key) is not commandMap.end()
KeyFound(m, k) == m[k] # Unbound

\* commandMap[key]: the entry of the key, made with an empty pointer when
\* there is none
Subscript(m, k) == IF KeyFound(m, k) THEN m ELSE [m EXCEPT ![k] = NullCmd]

\* (variant: a key that has an entry keeps it, as with emplace)
StoredIfNone(m, k, c) == IF KeyFound(m, k) THEN m ELSE [m EXCEPT ![k] = c]

\* Command line 153: commandMap[key] = std::move(command)
Stored(m, k, c) == [Subscript(m, k) EXCEPT ![k] = c]

\* Command lines 152-154; the unique_ptr handed in may be empty
bindCommand(k, c) ==
    /\ input' = [commandMap |-> Stored(input.commandMap, k, c),
                 bound |-> [input.bound EXCEPT ![k] = c],
                 call |-> [op |-> "bindCommand", type |-> "none", key |-> k,
                           ran |-> <<>>, pre |-> input.commandMap]]
    /\ UNCHANGED <<subjectVars, factory, fs>>

\* Command line 160 on an entry with an empty pointer calls execute through
\* a null pointer, which is undefined: nothing or any command may run
NullCallOutcomes == {<<>>} \cup {<<c>> : c \in Commands}

\* Command lines 155-163
handleInput(type, k) ==
    /\ IF type = "SDL_KEYDOWN" /\ KeyFound(input.commandMap, k)
       THEN LET m == Subscript(input.commandMap, k)
            IN  \E r \in IF m[k] = NullCmd THEN NullCallOutcomes ELSE {<<m[k]>>} :
                    input' = [input EXCEPT
                        !.commandMap = m,
                        !.call = [op |-> "handleInput", type |-> type, key |-> k,
                                  ran |-> r, pre |-> input.commandMap]]
       ELSE input' = [input EXCEPT
                !.call = [op |-> "handleInput", type |-> type, key |-> k,
                          ran |-> <<>>, pre |-> input.commandMap]]
    /\ UNCHANGED <<subjectVars, factory, fs>>

InputNext ==
    \/ \E k \in Keys, c \in Commands \cup {NullCmd} : bindCommand(k, c)
    \/ \E type \in EventTypes, k \in Keys : handleInput(type, k)

SpecInput == Init /\ [][InputNext]_vars

\* ---------------------------------------------------------------- FileSystem
\* FileSystem.cpp lines 65-76: Instance() throws on a platform that is
\* neither Windows nor Linux
HasInstance == fs.platform # "other"

Threw(op, p) == [op |-> op, path |-> p, thrown |-> TRUE, res |-> NoFile]

\* (variant: the file is opened with std::ios::app)
WriteAppends(old, t) == IF old = NoFile THEN t ELSE old \o t

\* FileSystem.cpp lines 54 and 58 (24 and 28): std::ofstream opens the file
\* truncated, and file << text puts the text in
WriteContent(old, t) == t

\* FileSystem.cpp line 48 (18): the whole content of the file
ReadContent(content) == content

\* FileSystem::Instance().Write(path, text); opening the file may fail
Write(p, t) ==
    /\ \E opens \in BOOLEAN :
          fs' = IF HasInstance /\ opens
                THEN [fs EXCEPT
                        !.disk[p] = WriteContent(fs.disk[p], t),
                        !.written[p] = t,
                        !.before[p] = fs.disk[p],
                        !.call = [op |-> "Write", path |-> p, thrown |-> FALSE,
                                  res |-> NoFile]]
                ELSE [fs EXCEPT !.call = Threw("Write", p)]
    /\ UNCHANGED <<subjectVars, factory, input>>

\* FileSystem::Instance().Read(path); a file that does not exist cannot be
\* opened, and opening one that exists may fail
Read(p) ==
    /\ \E opens \in BOOLEAN :
          fs' = IF HasInstance /\ opens /\ fs.disk[p] # NoFile
                THEN [fs EXCEPT
                        !.call = [op |-> "Read", path |-> p, thrown |-> FALSE,
                                  res |-> ReadContent(fs.disk[p])]]
                ELSE [fs EXCEPT !.call = Threw("Read", p)]
    /\ UNCHANGED <<subjectVars, factory, input>>

\* the files hold anything when the program starts
InitFileSystem ==
    /\ Constructed({1})
    /\ factory = FactoryNew
    /\ input = InputHandlerNew
    /\ hist = History(FALSE)
    /\ \E platform \in Platforms, disk \in [Paths -> Texts \cup {NoFile}] :
          fs = FileSystemOn(platform, disk)

FileSystemNext ==
    \/ \E p \in Paths, t \in Texts : Write(p, t)
    \/ \E p \in Paths : Read(p)

SpecFileSystem == InitFileSystem /\ [][FileSystemNext]_vars

\* ---------------------------------------------------------------- reading the logs
PreChain(f) == ChainOf(f.pre.head, f.pre.next, f.subj)

IsOwnNotify(e, i) == e[1] = "notify" /\ e[2] = i

\* the onNotify calls of the pass that is frame i of the stack, in order
OwnNotified(i) == SelectSeq(stack[i].log, LAMBDA e : IsOwnNotify(e, i))
OwnObservers(i) == [j \in DOMAIN OwnNotified(i) |-> OwnNotified(i)[j][4]]

\* no callback of the pass that is frame i made a call
NoCalls(i) == \A j \in DOMAIN stack[i].log : IsOwnNotify(stack[i].log[j], i)

NoRepeat(q) == \A j, k \in DOMAIN q : q[j] = q[k] => j = k

Returning == ~Idle /\ Top.pc = "ret"
PassReturning == Returning /\ IsPass(Top)

\* ---------------------------------------------------------------- C1
\* C1: when observers O1..On, each registered nowhere before, were added in
\* this order and setState(v) then runs with callbacks that only return, the
\* pass calls onNotify on On, ..., O1 in this order, each with v.
C1_OrderInversion ==
    (Returning /\ Top.op = "setState" /\ ~dup /\ NoCalls(Len(stack)))
        => /\ OwnObservers(Len(stack)) = Reverse(reg[Top.subj])
           /\ \A j \in DOMAIN OwnNotified(Len(stack)) :
                  OwnNotified(Len(stack))[j][5] = Top.arg

C1_Witness ==
    /\ Returning /\ Top.op = "setState" /\ ~dup /\ NoCalls(Len(stack))
    /\ Len(reg[Top.subj]) >= 3
    /\ Top.arg # 0

\* ---------------------------------------------------------------- C2
\* C2: a notification pass whose callbacks only return calls onNotify on each
\* observer of the chain it started on exactly once and on no other observer,
\* whatever addObserver/removeObserver calls came before.
C2_EachOnce ==
    \A i \in DOMAIN stack :
        (IsPass(stack[i]) /\ NoCalls(i))
            => /\ NoRepeat(OwnObservers(i))
               /\ Range(OwnObservers(i)) \subseteq Range(PreChain(stack[i]))
               /\ stack[i].pc = "ret"
                      => Range(OwnObservers(i)) = Range(PreChain(stack[i]))

\* ---------------------------------------------------------------- C3
\* C3: in every state, following next_ from head_ ends at null without
\* meeting an observer twice, and (while the registration history is kept)
\* between calls it meets exactly the registered observers.
C3_ChainWellFormed ==
    \A s \in Subjects :
        /\ Acyclic(Chain(s))
        /\ (Idle /\ ~dup) => Range(Chain(s)) = Range(reg[s])

\* ---------------------------------------------------------------- C4
\* the argument of the last setState on Subject s among the first j - 1
\* events of frame i, or the state the frame started with
RECURSIVE LastSet(_, _)
LastSet(i, j) ==
    IF j = 1
    THEN IF stack[i].op = "setState" THEN stack[i].arg
         ELSE stack[i].pre.state[stack[i].subj]
    ELSE IF /\ stack[i].log[j - 1][1] = "setState"
            /\ stack[i].log[j - 1][3] = stack[i].subj
         THEN stack[i].log[j - 1][4]
         ELSE LastSet(i, j - 1)

\* C4 as stated: every onNotify call of the pass of setState(v) receives v.
C4_PassValue ==
    \A i \in DOMAIN stack :
        stack[i].op = "setState"
            => \A j \in DOMAIN OwnNotified(i) : OwnNotified(i)[j][5] = stack[i].arg

\* C4 amended: every onNotify call of a pass receives the argument of the most
\* recent setState call on the Subject, which is v in the pass of setState(v)
\* until a callback of that pass calls setState(w) itself.
C4_CurrentValue ==
    \A i \in DOMAIN stack :
        IsPass(stack[i])
            => \A j \in DOMAIN stack[i].log :
                  IsOwnNotify(stack[i].log[j], i)
                      => stack[i].log[j][5] = LastSet(i, j)

C4_Witness ==
    /\ PassReturning /\ Top.op = "setState" /\ Len(stack) = 1
    /\ \E j, k \in DOMAIN Top.log :
          /\ j < k
          /\ Top.log[j][1] = "setState" /\ Top.log[j][4] # Top.arg
          /\ IsOwnNotify(Top.log[k], 1) /\ Top.log[k][5] = Top.log[j][4]
    /\ \E k \in DOMAIN Top.log :
          IsOwnNotify(Top.log[k], 1) /\ Top.log[k][5] = Top.arg

\* ---------------------------------------------------------------- C5
\* C5: removeObserver(X) on a chain of distinct observers that holds X leaves
\* the chain without X, the others in their order, and X unlinked; and a pass
\* whose callbacks only return notifies the chain it started on, in order.
C5_RemovesExactly ==
    /\ (Returning /\ Top.op = "removeObserver"
            /\ Acyclic(PreChain(Top)) /\ Top.arg \in Range(PreChain(Top)))
          => /\ Chain(Top.subj) = Without(PreChain(Top), Top.arg)
             /\ next_[Top.arg] = NULL
    /\ (PassReturning /\ Acyclic(PreChain(Top)) /\ NoCalls(Len(stack)))
          => OwnObservers(Len(stack)) = PreChain(Top)

C5_Witness ==
    /\ Returning /\ Top.op = "removeObserver"
    /\ Acyclic(PreChain(Top)) /\ Len(PreChain(Top)) = 3
    /\ Top.arg = PreChain(Top)[2]

RemovedDuring(i, o) ==
    \E j \in DOMAIN stack[i].log :
        /\ stack[i].log[j][1] = "removeObserver"
        /\ stack[i].log[j][3] = stack[i].subj
        /\ stack[i].log[j][4] = o

LogComplete(i) == Len(stack[i].log) < LogCap

\* C7: when a pass returns, every observer that was in the chain at its start
\* and that no callback removed during the pass has been notified by it
\* (stated for histories in which every addObserver got an unregistered
\* observer).
C7_NeverCutShort ==
    (PassReturning /\ ~dup /\ LogComplete(Len(stack)))
        => \A o \in Range(PreChain(Top)) :
              RemovedDuring(Len(stack), o) \/ o \in Range(OwnObservers(Len(stack)))

\* ---------------------------------------------------------------- C8
\* C8: (a) a pass never calls onNotify on an observer after a callback added
\* it, unregistered, during that pass; (b) when a pass returns, every observer
\* that a callback had added before the pass started, and that was registered
\* from then to the end of the pass, has been notified by it.
C8_LateAddition ==
    /\ \A i \in DOMAIN stack :
          (IsPass(stack[i]) /\ ~dup)
              => \A j, k \in DOMAIN stack[i].log :
                    ~ /\ j < k
                      /\ stack[i].log[j][1] = "addObserver"
                      /\ stack[i].log[j][3] = stack[i].subj
                      /\ stack[i].log[j][5] = 0
                      /\ IsOwnNotify(stack[i].log[k], i)
                      /\ stack[i].log[k][4] = stack[i].log[j][4]
    /\ (PassReturning /\ ~dup /\ LogComplete(Len(stack)))
          => \A o \in Top.pre.cbAdded \cap Range(Top.pre.reg[Top.subj]) :
                RemovedDuring(Len(stack), o) \/ o \in Range(OwnObservers(Len(stack)))

\* ---------------------------------------------------------------- C9
\* C9: every call of addObserver, removeObserver, setState and
\* notifyObservers returns: whenever calls are in progress, later none is.
C9_CallsReturn == [](~Idle => <>Idle)

\* ---------------------------------------------------------------- C10
\* C10: between calls, every observer is reachable from the head_ of at most
\* one Subject.
C10_OneChainPerObserver ==
    Idle => \A o \in Observers :
               Cardinality({s \in Subjects : o \in Range(Chain(s))}) <= 1

\* ---------------------------------------------------------------- C11
RECURSIVE WithoutAll(_, _)
WithoutAll(q, xs) ==
    IF xs = <<>> THEN q ELSE WithoutAll(Without(q, Head(xs)), Tail(xs))

\* the calls that the callbacks made while frame i was running, in order
CallsIn(i) == SelectSeq(stack[i].log, LAMBDA e : e[1] # "notify")

\* they were all removeObserver calls on the Subject of frame i
OnlyRemoves(i) ==
    \A j \in DOMAIN CallsIn(i) :
        CallsIn(i)[j][1] = "removeObserver" /\ CallsIn(i)[j][3] = stack[i].subj

RemovedIn(i) == [j \in DOMAIN CallsIn(i) |-> CallsIn(i)[j][4]]

\* C11: when the callbacks of a pass over a well-formed chain called
\* removeObserver (on the observer being notified or on any other one) and
\* made no other call, then at the end of the pass the chain is acyclic and is
\* the chain the pass started with, without the removed observers and in the
\* same order.
C11_CallbackRemovalKeepsChain ==
    (PassReturning /\ Acyclic(PreChain(Top)) /\ LogComplete(Len(stack))
        /\ OnlyRemoves(Len(stack)) /\ RemovedIn(Len(stack)) # <<>>)
        => /\ Acyclic(Chain(Top.subj))
           /\ Chain(Top.subj) = WithoutAll(PreChain(Top), RemovedIn(Len(stack)))

\* the second of three observers removes itself in its callback
C11_Witness ==
    /\ PassReturning
    /\ Len(PreChain(Top)) = 3
    /\ OwnObservers(Len(stack)) = SubSeq(PreChain(Top), 1, 2)
    /\ RemovedIn(Len(stack)) = <<PreChain(Top)[2]>>
    /\ Chain(Top.subj) = <<PreChain(Top)[1], PreChain(Top)[3]>>

\* ---------------------------------------------------------------- C12
\* C12: a setState(v) call on a Subject whose chain is empty (head_ is null,
\* because nothing was added or everything was removed) has nothing to walk:
\* it calls no onNotify, makes no other call, and state_, which getState
\* returns, is v, for every v.
C12_EmptyRegistryNotify ==
    (~Idle /\ Top.op = "setState" /\ Top.pre.head[Top.subj] = NULL)
        => /\ Top.cur = NULL
           /\ Top.log = <<>>
           /\ state_[Top.subj] = Top.arg
           /\ GetStateResult(Top.subj) = Top.arg

\* setState returns from an empty Subject whose state it changed
C12_Witness ==
    /\ Returning
    /\ Top.op = "setState"
    /\ Top.pre.head[Top.subj] = NULL
    /\ Top.arg # Top.pre.state[Top.subj]

\* ---------------------------------------------------------------- C13
\* C13: when the chain of a Subject is the single observer X (X was added to
\* the empty Subject), removeObserver(X) leaves head_ null and X.next_ null:
\* the registry is empty and a pass that starts now has no observer to call.
C13_SoleObserverRemoved ==
    (Returning /\ Top.op = "removeObserver" /\ PreChain(Top) = <<Top.arg>>)
        => /\ head_[Top.subj] = NULL
           /\ next_[Top.arg] = NULL
           /\ Walk(next_, PassStart(Top.subj), NumObs + 1) = <<>>

\* the driver removes the only observer of a Subject
C13_Witness ==
    /\ Returning
    /\ Len(stack) = 1
    /\ Top.op = "removeObserver"
    /\ PreChain(Top) = <<Top.arg>>
    /\ Top.pre.reg[Top.subj] = <<Top.arg>>
    /\ Chain(Top.subj) = <<>>

\* ---------------------------------------------------------------- C14
\* C14: getState returns 0 when no setState call was made on the Subject and
\* otherwise the argument of the most recent setState call on it; the call
\* changes neither state_ nor head_ nor any next_, and no onNotify and no
\* other call happens during it.
C14_GetStateReadsOnly ==
    (Returning /\ Top.op = "getState")
        => /\ Top.res = lastSet[Top.subj]
           /\ state_ = Top.pre.state
           /\ head_ = Top.pre.head
           /\ next_ = Top.pre.next
           /\ Top.log = <<>>

\* a callback of the pass of setState(v) reads the state after a callback of
\* the same pass has set another one
C14_Witness ==
    /\ Returning
    /\ Top.op = "getState"
    /\ Len(stack) = 2
    /\ stack[1].op = "setState"
    /\ Top.res # stack[1].arg
    /\ Top.res = lastSet[Top.subj]

\* ---------------------------------------------------------------- C15
\* C15: in every state a sequence of GetFlyweight calls reaches, at most one
\* TextureFlyweight object was constructed for each file path, and a call
\* that returned has returned what the first call that returned for the same
\* path returned.
C15_OneFlyweightPerPath ==
    /\ \A p \in FilePaths : factory.made[p] <= 1
    /\ (factory.call.path # 0 /\ ~factory.call.thrown)
          => factory.call.res = factory.first[factory.call.path]

\* a later call for a path gets the object made for it, other objects exist
C15_Witness ==
    /\ factory.call.path # 0
    /\ factory.call.hit
    /\ ~factory.call.thrown
    /\ factory.call.res \in 1..MaxFlyweights
    /\ factory.made[factory.call.path] = 1
    /\ factory.objects >= 2

\* ---------------------------------------------------------------- C16
\* C16: after any sequence of bindCommand and handleInput calls, a handleInput
\* call has left the bindings as it found them; for a key-down event whose
\* key has a command bound it has executed exactly the command most recently
\* bound to that key, once; for a key without entry and for an event that is
\* not a key-down it has executed nothing.
C16_HandleInputDispatch ==
    (input.call.op = "handleInput")
        => /\ input.commandMap = input.call.pre
           /\ (input.call.type = "SDL_KEYDOWN"
                    /\ input.call.pre[input.call.key] \in Commands)
                 => input.call.ran = <<input.bound[input.call.key]>>
           /\ (input.call.type # "SDL_KEYDOWN"
                    \/ input.call.pre[input.call.key] = Unbound)
                 => input.call.ran = <<>>

\* a key-down of key 1 runs command 2, which is bound to it, while key 2 is
\* bound to command 1
C16_Witness ==
    /\ input.call.op = "handleInput"
    /\ input.call.type = "SDL_KEYDOWN"
    /\ input.call.key = 1
    /\ input.call.ran = <<2>>
    /\ input.commandMap = <<2, 1>>

\* ---------------------------------------------------------------- C17
\* C17: a Read(p) that returns, made after a Write(p, t) returned and before
\* any later Write to p returned, returns exactly t, whatever the file held
\* before that Write.
C17_ReadAfterWrite ==
    (fs.call.op = "Read" /\ ~fs.call.thrown /\ fs.written[fs.call.path] # NoFile)
        => fs.call.res = fs.written[fs.call.path]

\* the Write replaced a longer text by a shorter one that is not empty
C17_Witness ==
    /\ fs.call.op = "Read"
    /\ ~fs.call.thrown
    /\ fs.before[fs.call.path] # NoFile
    /\ fs.written[fs.call.path] # NoFile
    /\ fs.call.res # <<>>
    /\ Len(fs.before[fs.call.path]) > Len(fs.call.res)

\* ---------------------------------------------------------------- C18
\* the callbacks that ran while frame i was running registered and
\* unregistered nobody
KeepsRegistry(i) ==
    \A j \in DOMAIN CallsIn(i) : CallsIn(i)[j][1] \in {"setState", "getState"}

IsRead(e, s) == e[1] = "getState" /\ e[3] = s

\* setState(v) has stored v when its pass starts, and the pass, when its
\* callbacks leave the registry alone, calls onNotify on the whole chain, each
\* observer once, whatever v is
StoresThenNotifiesAll ==
    /\ \A i \in DOMAIN stack :
          (stack[i].op = "setState" /\ stack[i].log = <<>>)
              => state_[stack[i].subj] = stack[i].arg
    /\ (Returning /\ Top.op = "setState" /\ Acyclic(PreChain(Top))
            /\ KeepsRegistry(Len(stack)) /\ LogComplete(Len(stack)))
          => OwnObservers(Len(stack)) = PreChain(Top)

CallAt(i) == CHOOSE j \in DOMAIN stack[i].log : stack[i].log[j][1] # "notify"

\* the callbacks of the pass that is frame i made one call, a setState on the
\* Subject of the pass
OneNestedSet(i) ==
    /\ Len(CallsIn(i)) = 1
    /\ CallsIn(i)[1][1] = "setState"
    /\ CallsIn(i)[1][3] = stack[i].subj

\* C19: when one callback of the pass of setState(v) over a well-formed chain
\* calls setState(w) and no callback makes another call, the nested pass
\* calls onNotify with w on every observer of the chain, in chain order,
\* before the outer pass makes its next onNotify call, and when the outer
\* setState returns the state, which getState returns, is w.
C19_NestedPassFirst ==
    (Returning /\ Top.op = "setState" /\ Acyclic(PreChain(Top))
        /\ LogComplete(Len(stack)) /\ OneNestedSet(Len(stack)))
        => LET i == Len(stack)
               j == CallAt(i)
               w == Top.log[j][4]
               n == Len(PreChain(Top))
           IN  /\ Len(Top.log) >= j + n
               /\ \A k \in 1..n :
                     Top.log[j + k] = <<"notify", i + 1, Top.subj, PreChain(Top)[k], w>>
               /\ \A k \in DOMAIN Top.log :
                     (k < j \/ k > j + n) => IsOwnNotify(Top.log[k], i)
               /\ OwnObservers(i) = PreChain(Top)
               /\ state_[Top.subj] = w
               /\ GetStateResult(Top.subj) = w

\* the first of two observers calls setState(w), w other than v
C19_Witness ==
    /\ Returning /\ Top.op = "setState" /\ Len(stack) = 1
    /\ Len(PreChain(Top)) = 2
    /\ OneNestedSet(1)
    /\ CallAt(1) = 2
    /\ Top.log[2][4] # Top.arg
    /\ state_[Top.subj] = Top.log[2][4]
    /\ Len(Top.log) = 5

\* ---------------------------------------------------------------- C20
\* C20: outside the operations an observer that is not registered has a null
\* next_: the observers that were never added or were removed have it between
\* the calls, and the observer that a removeObserver call of the driver was
\* given has it when the call returns.
C20_UnregisteredUnlinked ==
    /\ (Idle /\ ~dup)
          => \A o \in Observers : ~Registered(o) => next_[o] = NULL
    /\ (Returning /\ Top.op = "removeObserver" /\ Len(stack) = 1)
          => next_[Top.arg] = NULL

\* ---------------------------------------------------------------- C21
\* the removeObserver(X) that the driver called right after its addObserver(X)
\* on the same Subject, X registered nowhere then, returns
PairReturning ==
    /\ Returning
    /\ Len(stack) = 1
    /\ Top.op = "removeObserver"
    /\ hist.pair.phase = "removing"

\* C21: when addObserver(X), X not registered, is followed at once by
\* removeObserver(X), then head_, every next_ (that of X too) and state_ are
\* what they were before the addObserver call.
C21_AddRemoveRestores ==
    PairReturning
        => /\ head_ = hist.pair.before.head
           /\ next_ = hist.pair.before.next
           /\ state_ = hist.pair.before.state

\* ---------------------------------------------------------------- C22
IsRegistryOp(f) == f.op \in {"addObserver", "removeObserver"}

\* C22: while an addObserver or removeObserver call runs, no onNotify and no
\* other call happens and state_, which getState returns, stays what it was
\* when the call started; the calls that make onNotify calls are setState and
\* notifyObservers.
C22_RegistryOpsSilent ==
    /\ (~Idle /\ IsRegistryOp(Top))
          => /\ Top.log = <<>>
             /\ state_ = Top.pre.state
             /\ GetStateResult(Top.subj) = Top.pre.state[Top.subj]
    /\ \A i \in DOMAIN stack :
          (\E j \in DOMAIN stack[i].log : IsOwnNotify(stack[i].log[j], i))
              => IsPass(stack[i])

\* a removeObserver called from a callback has scanned the chain and unlinked
\* an observer, while the state is not 0
C22_Witness ==
    /\ Returning
    /\ Len(stack) = 2
    /\ Top.op = "removeObserver"
    /\ Top.odd
    /\ Chain(Top.subj) # PreChain(Top)
    /\ state_[Top.subj] # 0
====
